---- MODULE Spec2Model ----
(***************************************************************************)
(* The brand-catalog scanning system: the Agent (site_parsing_api/         *)
(* Agent_Node/main.py) runs one parser execution per /run_parser request   *)
(* as a background task; each execution walks the locales and categories   *)
(* of its brand, fetches and extracts product rows, serializes and uploads *)
(* the dataset and the log, deletes the local files and notifies the       *)
(* Manager.                                                                *)
(*                                                                         *)
(* An execution is a record parser[x]: the fields of the WebsiteParser     *)
(* object, the locals of the method it is in, and its position pc.  Every  *)
(* request to a catalog source is one step whose answer is chosen by the   *)
(* environment.                                                            *)
(***************************************************************************)
EXTENDS Integers, Sequences, FiniteSets, TLC

VARIABLES
    parser,             \* execution -> the state of its background task
    send_out_endpoint,  \* the process-wide callback endpoint of the Agent
    uuid_next,          \* the number of run codes drawn so far
    files,              \* the names of the files in the working directory
    inbox,              \* the /run_parser requests still to arrive
    settings,           \* the settings document served at SETTINGS_URL
    http,               \* one GET of a session with retries: its attempts so far
    utb_BrandScanJobs,  \* the Manager's table of jobs: job id -> row
    manager,            \* the Manager: its background tasks, answers and alerts
    url                 \* a value given to format_url, and the results returned

\* The state outside the Agent's executions.
Outside == <<http, utb_BrandScanJobs, manager, url>>

vars == <<parser, send_out_endpoint, uuid_next, files, inbox, settings, Outside>>

----------------------------------------------------------------------------
\* Bounds of the model.

\* Locale descriptors and categories of a brand's settings.
MaxLocales == 2
MaxCats == 2
\* Largest page count a source declares.
MaxPages == 2
\* Largest product total a source declares to the offset loops of Loewe and
\* Stone Island.
MaxTotal == 2
\* Largest product total a source declares to the stop-on-empty loops of
\* Dolce & Gabbana and Moncler.
MaxCount == 4
\* Largest number of items on one page.
MaxItems == 1
\* Largest configured page size (limit / size).
MaxLimit == 2
\* Largest configured start offset (Stone Island).
MaxStart == 1
\* Length up to which the requests of one category are recorded.
MaxFetched == 6

----------------------------------------------------------------------------
\* Brand identifiers of the strategy table of run_parser.

SaintLaurent == 478
Gucci == 229
AlexanderMcqueen == 26
Moncler == 363
LoroPiana == 314
Loewe == 310
DolceGabbana == 157
StoneIsland == 500
Chloe == 125
CanadaGoose == 110

\* A brand identifier with no entry in the strategy table.
UnknownBrand == 999

parsers == {SaintLaurent, Gucci, AlexanderMcqueen, Moncler, LoroPiana, Loewe,
            DolceGabbana, StoneIsland, Chloe, CanadaGoose}

BrandIds == parsers \cup {UnknownBrand}

\* The executions of a behaviour: one, or two that run concurrently.
Execs == {1, 2}
JobIds == {"J1", "J2"}
Endpoints == {"E1", "E2"}

\* Python's None, and a total that is absent from, or not a number in, a payload.
None == <<>>
Missing == -1
Unparsable == -2
\* No first payload at all (the request failed), or none received yet.
NoPayload == -3

Min(a, b) == IF a < b THEN a ELSE b

\* n copies of row r: the rows extracted from a page of n items.
RECURSIVE Rep(_, _)
Rep(r, n) == IF n <= 0 THEN <<>> ELSE <<r>> \o Rep(r, n - 1)

----------------------------------------------------------------------------
\* The state of an execution before its request arrives.

NoParser ==
    [pc |-> "idle", job_id |-> "J1", brand_id |-> UnknownBrand, endpoint |-> "E1",
     got |-> "nothing", reply |-> "",
     nl |-> 0, nc |-> 0, limit |-> 1, start |-> 0,
     li |-> 0, ci |-> 0,
     data |-> <<>>, all_data |-> <<>>, all_products |-> <<>>, returned |-> 0,
     offset |-> 0, total |-> 0, first_total |-> NoPayload, fetched |-> <<>>, turn |-> 0,
     bearer_token |-> "unset", outcome |-> "none",
     code |-> 0, log_file_name |-> None, output_filename |-> None,
     stream |-> "none", removal |-> "none",
     artifact |-> None, upload_url |-> None, log_url |-> None, count |-> 0,
     steps |-> <<>>, notifications |-> <<>>]

\* The requests of a behaviour.  The first request is J1 to E1 (the names are
\* interchangeable); a second one may repeat or differ in job and endpoint.
Request(j, b, e) == [job_id |-> j, brand_id |-> b, endpoint |-> e]

\* Brands requested when two executions run concurrently.
ConcurrentBrands == {CanadaGoose, UnknownBrand}

Workloads ==
    {<<Request("J1", b, "E1")>> : b \in BrandIds}
    \cup {<<Request("J1", b1, "E1"), Request(j, b2, e)>> :
            b1 \in ConcurrentBrands, b2 \in ConcurrentBrands,
            j \in JobIds, e \in Endpoints}

\* The settings of the requested brands: Locales, Categories, and the page size
\* and start offset carried by the locale descriptors of the brands that use them.
UsesLimit(b) == b \in {Loewe, DolceGabbana, StoneIsland}

SettingsFor(w) ==
    LET b == w[1].brand_id
        many == Len(w) > 1
    IN  [nl : IF many THEN {1} ELSE 0..MaxLocales,
         nc : IF many THEN {1} ELSE 0..MaxCats,
         limit : IF UsesLimit(b) THEN 1..MaxLimit ELSE {1},
         start : IF b = StoneIsland THEN 0..MaxStart ELSE {0}]

\* Retry(total=5, status_forcelist=[429, 500, 502, 503, 504]) mounted on the session.
Retry_total == 5
status_forcelist == {429, 500, 502, 503, 504}

\* The answers to one attempt: a status, or TransportFailure when the connection
\* or the read fails.
TransportFailure == 0
Answers == {TransportFailure, 200, 404} \cup status_forcelist

\* The Manager's table before any result is recorded: a row for job J1 (its
\* BrandId and ScanUrl, the Parsing columns NULL) and no row for job J2.
NoResults == [j \in {"J1"} |-> [BrandId |-> CanadaGoose, ScanUrl |-> "U1", Parsing |-> None]]

\* The Manager before any call: no background task, no answer to a notification
\* of an execution of the Agent, no alert sent, and the clock of the database.
NoCalls ==
    [tasks |-> <<>>, answers |-> [x \in Execs |-> <<>>], rejected |-> 0,
     emails |-> 0, getdate |-> 0]

\* The value that stands for None where a URL is expected, and format_url not
\* called yet.
NoUrl == <<"None">>
NoFormat == [arg |-> NoUrl, results |-> <<>>]

\* A GET that has made no attempt yet.
NoRequest == [attempts |-> <<>>, total |-> Retry_total, state |-> "sending"]

Init ==
    /\ parser = [x \in Execs |-> NoParser]
    /\ send_out_endpoint = None
    /\ uuid_next = 0
    /\ files = {}
    /\ inbox \in Workloads
    /\ settings \in SettingsFor(inbox)
    /\ http = NoRequest
    /\ utb_BrandScanJobs = NoResults
    /\ manager = NoCalls
    /\ url = NoFormat

----------------------------------------------------------------------------
\* Answers of a catalog source to one request.

\* st: "ok" (a payload arrived), "status" (a status other than 200) or "err" (the
\* request or the decoding of its payload raised); tot: the total the payload
\* declares; n: its number of items; h: its number of hitsAlgolia entries.
Ok(tot, n) == [st |-> "ok", tot |-> tot, n |-> n, h |-> n]
Err == [st |-> "err", tot |-> Missing, n |-> 0, h |-> 0]
BadStatus == [st |-> "status", tot |-> Missing, n |-> 0, h |-> 0]

Totals(max) == (0..max) \cup {Missing, Unparsable}
FirstPages == {Ok(t, 0) : t \in Totals(MaxPages)} \cup {Err}
Pages == {Ok(0, n) : n \in 0..MaxItems} \cup {Err}

\* The items of answer r, -1 when the request failed.
Items(r) == IF r.st = "ok" THEN r.n ELSE -1

\* A request of the current category at page / offset off and its answer r,
\* recorded: the first MaxFetched requests of a category are kept, and of the
\* later ones their parity.  The fetch logs a record, which opens the stream of
\* the log's file handler if it was closed.
Fetch(p, off, r) ==
    IF Len(p.fetched) < MaxFetched
    THEN [p EXCEPT !.fetched = Append(@, [off |-> off, n |-> Items(r)]),
                   !.stream = "open"]
    ELSE [p EXCEPT !.turn = 1 - @, !.stream = "open"]

\* The total declared by the first answer r of a category.
Declared(r) == IF r.st = "ok" THEN r.tot ELSE NoPayload

\* fetch_data returns rows to process_categories, which appends them to self.data;
\* returned counts the rows that the fetches of the execution have returned.
Return(p, rows, how) ==
    [p EXCEPT !.pc = "loop", !.data = @ \o rows, !.all_products = <<>>,
              !.returned = @ + Len(rows),
              !.offset = 0, !.turn = 0, !.outcome = how]

\* The row extracted from one item of page off of the current (locale, category).
Row(p, off) == <<p.li, p.ci, off>>

Set(x, p) == parser' = [parser EXCEPT ![x] = p]

\* process_categories leaves its loops: the locals of the fetch are gone.
Leave(p) ==
    [p EXCEPT !.pc = "to_csv", !.total = 0, !.first_total = NoPayload, !.fetched = <<>>,
              !.bearer_token = "unset", !.outcome = "none"]

----------------------------------------------------------------------------
\* POST /run_parser: stores the callback endpoint in the process-wide variable
\* and queues the background task.

brand_batch_endpoint(x) ==
    /\ parser[x].pc = "idle"
    /\ \A y \in Execs : y < x => parser[y].pc # "idle"
    /\ inbox # <<>>
    /\ LET r == Head(inbox) IN
       /\ send_out_endpoint' = r.endpoint
       /\ Set(x, [parser[x] EXCEPT !.pc = "queued", !.job_id = r.job_id,
                                   !.brand_id = r.brand_id, !.endpoint = r.endpoint,
                                   !.reply = "Parser task started in the background"])
    /\ inbox' = Tail(inbox)
    /\ UNCHANGED <<uuid_next, files, settings, Outside>>

\* The file names of an execution: its log and its dataset artifact.
\* A log named by the brand alone.
LogName_without_code(brand, code) == <<"log", brand, 0>>

LogName(brand, code) == <<"log", brand, code>>
OutName(brand, code) == <<"output", brand, code>>

\* The first method of the strategy's fetch code.
FetchEntry(b) == IF b = Loewe THEN "token" ELSE "first"

\* run_parser: fetches the settings, resolves the brand, builds the parser
\* (WebsiteParser.__init__ draws the run code and opens the log file).
\* A run_parser that builds a parser for every brand found in the settings.
Resolved_by_settings(got, brand_id) == got = "present"

\* The settings were fetched and hold the brand (`if not settings or brand_id not
\* in settings: return`), and the brand is in the strategy table (`if brand_id in
\* parsers`).
Resolved(got, brand_id) == got = "present" /\ brand_id \in parsers

run_parser(x) ==
    /\ parser[x].pc = "queued"
    /\ \E got \in {"unavailable", "absent", "present"} :
        LET p == [parser[x] EXCEPT !.got = got] IN
        IF Resolved(got, p.brand_id)
        THEN /\ uuid_next' = uuid_next + 1
             /\ files' = files \cup {LogName(p.brand_id, uuid_next + 1)}
             /\ Set(x, [p EXCEPT !.pc = "loop", !.code = uuid_next + 1,
                                 !.stream = "open",
                                 !.log_file_name = LogName(p.brand_id, uuid_next + 1),
                                 !.nl = settings.nl, !.nc = settings.nc,
                                 !.limit = settings.limit, !.start = settings.start])
        ELSE /\ Set(x, [p EXCEPT !.pc = "no_parser"])
             /\ UNCHANGED <<uuid_next, files>>
    /\ UNCHANGED <<send_out_endpoint, inbox, settings, Outside>>

----------------------------------------------------------------------------
\* process_categories: the locale / category loops.

\* The strategies that assign a fresh DataFrame to self.data at each locale.
ResetsData(b) ==
    b \in {Gucci, AlexanderMcqueen, Loewe, StoneIsland, Chloe, CanadaGoose, DolceGabbana}

\* The loops nested the other way round: categories outside, locales inside.
process_categories_category_major(x) ==
    /\ parser[x].pc = "loop"
    /\ parser[x].brand_id \notin {Moncler, DolceGabbana}
    /\ LET p == parser[x] IN
       IF p.ci >= 1 /\ p.li < p.nl
       THEN Set(x, [p EXCEPT !.li = @ + 1, !.pc = FetchEntry(p.brand_id),
                             !.all_products = <<>>, !.offset = 0, !.total = 0,
                             !.first_total = NoPayload, !.fetched = <<>>,
                             !.bearer_token = "unset", !.outcome = "none"])
       ELSE IF p.ci < p.nc
       THEN Set(x, [p EXCEPT !.ci = @ + 1, !.li = 0])
       ELSE Set(x, Leave(p))
    /\ UNCHANGED <<send_out_endpoint, uuid_next, files, inbox, settings, Outside>>

process_categories(x) ==
    /\ parser[x].pc = "loop"
    /\ parser[x].brand_id \notin {Moncler, DolceGabbana}
    /\ LET p == parser[x] IN
       IF p.li >= 1 /\ p.ci < p.nc
       THEN Set(x, [p EXCEPT !.ci = @ + 1, !.pc = FetchEntry(p.brand_id),
                             !.all_products = <<>>, !.offset = 0, !.total = 0,
                             !.first_total = NoPayload, !.fetched = <<>>,
                             !.bearer_token = "unset", !.outcome = "none"])
       ELSE IF p.li < p.nl
       THEN Set(x, [p EXCEPT !.li = @ + 1, !.ci = 0,
                             !.data = IF ResetsData(p.brand_id) THEN <<>> ELSE @])
       ELSE Set(x, Leave(p))
    /\ UNCHANGED <<send_out_endpoint, uuid_next, files, inbox, settings, Outside>>

----------------------------------------------------------------------------
\* The fetch_data of the strategies whose first payload declares a page count:
\* a first request of page 0, then one request per page index in range(total).

Frame1 == <<send_out_endpoint, uuid_next, files, inbox, settings, Outside>>

\* The first request: total is the page count read from payload r, or Unparsable
\* when reading it raises.
fetch_data_first(x, r, total) ==
    LET p == [Fetch(parser[x], 0, r) EXCEPT !.first_total = Declared(r)] IN
    IF r.st # "ok" \/ total = Unparsable
    THEN Set(x, Return(p, <<>>, "except"))
    ELSE IF total <= 0
    THEN Set(x, Return(p, <<>>, "returned"))
    ELSE Set(x, [p EXCEPT !.pc = "page", !.offset = 0, !.total = total])

\* An iteration whose failure returns the rows extracted so far.
fetch_data_page_keeps_rows(x, r, k) ==
    LET p == Fetch(parser[x], parser[x].offset, r)
        rows == p.all_products \o Rep(Row(p, p.offset), k)
    IN
    IF r.st # "ok"
    THEN Set(x, Return(p, p.all_products, "except"))
    ELSE IF p.offset + 1 < p.total
    THEN Set(x, [p EXCEPT !.all_products = rows, !.offset = @ + 1])
    ELSE Set(x, Return(p, rows, "returned"))

\* One iteration of `for page in range(total_pages)`: k rows are extracted.
fetch_data_page(x, r, k) ==
    LET p == Fetch(parser[x], parser[x].offset, r)
        rows == p.all_products \o Rep(Row(p, p.offset), k)
    IN
    IF r.st # "ok"
    THEN Set(x, Return(p, <<>>, "except"))
    ELSE IF p.offset + 1 < p.total
    THEN Set(x, [p EXCEPT !.all_products = rows, !.offset = @ + 1])
    ELSE Set(x, Return(p, rows, "returned"))

At(x, pc, b) == parser[x].pc = pc /\ parser[x].brand_id = b

\* GucciProductParser: numberOfPages, 1 when absent.
Gucci_total_pages(r) == IF r.tot = Missing THEN 1 ELSE r.tot

Gucci_fetch_data_first(x) ==
    /\ At(x, "first", Gucci)
    /\ \E r \in FirstPages : fetch_data_first(x, r, Gucci_total_pages(r))
    /\ UNCHANGED Frame1

Gucci_fetch_data_page(x) ==
    /\ At(x, "page", Gucci)
    /\ \E r \in Pages : fetch_data_page(x, r, r.n)
    /\ UNCHANGED Frame1

\* LoroPianaProductParser: pagination.numberOfPages, 0 when absent.
LoroPiana_total_pages(r) == IF r.tot = Missing THEN 0 ELSE r.tot

LoroPiana_fetch_data_first(x) ==
    /\ At(x, "first", LoroPiana)
    /\ \E r \in FirstPages : fetch_data_first(x, r, LoroPiana_total_pages(r))
    /\ UNCHANGED Frame1

LoroPiana_fetch_data_page(x) ==
    /\ At(x, "page", LoroPiana)
    /\ \E r \in Pages : fetch_data_page(x, r, r.n)
    /\ UNCHANGED Frame1

\* AlexanderMcqueenParser: stats.nbPages + 1; an absent key raises KeyError.
AlexanderMcqueen_total_pages(r) ==
    IF r.tot \in {Missing, Unparsable} THEN Unparsable ELSE r.tot + 1

AlexanderMcqueen_fetch_data_first(x) ==
    /\ At(x, "first", AlexanderMcqueen)
    /\ \E r \in FirstPages : fetch_data_first(x, r, AlexanderMcqueen_total_pages(r))
    /\ UNCHANGED Frame1

AlexanderMcqueen_fetch_data_page(x) ==
    /\ At(x, "page", AlexanderMcqueen)
    /\ \E r \in Pages : fetch_data_page(x, r, r.n)
    /\ UNCHANGED Frame1

\* SaintLaurentProductParser: stats.nbPages, 0 when absent; a page yields
\* zip(products, hitsAlgolia) when both are non-empty.
SaintLaurent_total_pages(r) == IF r.tot = Missing THEN 0 ELSE r.tot

SaintLaurent_rows(r) == IF r.n > 0 /\ r.h > 0 THEN Min(r.n, r.h) ELSE 0

SaintLaurentPages ==
    {[st |-> "ok", tot |-> 0, n |-> n, h |-> h] : n \in 0..MaxItems, h \in 0..MaxItems}
    \cup {Err}

SaintLaurent_fetch_data_first(x) ==
    /\ At(x, "first", SaintLaurent)
    /\ \E r \in FirstPages : fetch_data_first(x, r, SaintLaurent_total_pages(r))
    /\ UNCHANGED Frame1

SaintLaurent_fetch_data_page(x) ==
    /\ At(x, "page", SaintLaurent)
    /\ \E r \in SaintLaurentPages : fetch_data_page(x, r, SaintLaurent_rows(r))
    /\ UNCHANGED Frame1

----------------------------------------------------------------------------
\* ChloeProductParser: one request of the listing, then get_product_info requests
\* the product page of each article (extract_product_id).

Chloe_fetch_data(x) ==
    /\ At(x, "first", Chloe)
    /\ \E r \in Pages :
        LET p == Fetch(parser[x], 0, r) IN
        IF r.st # "ok" THEN Set(x, Return(p, <<>>, "except"))
        ELSE IF r.n = 0 THEN Set(x, Return(p, <<>>, "returned"))
        ELSE Set(x, [p EXCEPT !.pc = "page", !.offset = 0, !.total = r.n])
    /\ UNCHANGED Frame1

Chloe_get_product_info(x) ==
    /\ At(x, "page", Chloe)
    /\ \E r \in {Ok(0, 1), Err} : fetch_data_page(x, r, 1)
    /\ UNCHANGED Frame1

\* CanadaGooseProductParser: one request per category.
CanadaGoose_fetch_data(x) ==
    /\ At(x, "first", CanadaGoose)
    /\ \E r \in Pages :
        LET p == Fetch(parser[x], 0, r) IN
        IF r.st # "ok" THEN Set(x, Return(p, <<>>, "except"))
        ELSE Set(x, Return(p, Rep(Row(p, 0), r.n), "returned"))
    /\ UNCHANGED Frame1

----------------------------------------------------------------------------
\* The bearer token read from the browser's performance log: found, not found
\* (None), or the browser interaction raises.
Tokens == {"token", "none", "raise"}

\* An exception leaves process_categories: the background task ends.
Raise(p) == [p EXCEPT !.pc = "raised", !.outcome = "raised"]

\* LoeweProductParser.fetch_data: get_bearer_token is called outside the try.
Loewe_get_bearer_token(x) ==
    /\ At(x, "token", Loewe)
    /\ \E t \in Tokens :
        LET p == parser[x] IN
        IF t = "raise" THEN Set(x, Raise(p))
        ELSE IF t = "none"
        THEN Set(x, Return([p EXCEPT !.bearer_token = "none"], <<>>, "no_token"))
        ELSE Set(x, [p EXCEPT !.pc = "first", !.bearer_token = "found"])
    /\ UNCHANGED Frame1

\* c_totalProducts of the first hit, 0 when there is no hit; int() raises on an
\* absent or non-numeric value.
Loewe_total_products(r) ==
    IF r.n = 0 THEN 0
    ELSE IF r.tot \in {Missing, Unparsable} THEN Unparsable ELSE r.tot

LoeweFirst ==
    {Ok(t, n) : t \in Totals(MaxTotal), n \in 1..MaxItems} \cup {Ok(0, 0), Err}

\* The first request (offset 0, limit 2) and the evaluation of the loop condition.
Loewe_fetch_data_first(x) ==
    /\ At(x, "first", Loewe)
    /\ \E r \in LoeweFirst :
        LET p == [Fetch(parser[x], 0, r) EXCEPT
                      !.first_total = IF r.st = "ok" /\ r.n = 0 THEN Missing
                                      ELSE Declared(r)]
            total == Loewe_total_products(r)
        IN
        IF r.st # "ok" \/ total = Unparsable
        THEN Set(x, Return(p, <<>>, "except"))
        ELSE IF 0 <= total
        THEN Set(x, [p EXCEPT !.pc = "page", !.offset = 0, !.total = total])
        ELSE Set(x, Return(p, <<>>, "returned"))
    /\ UNCHANGED Frame1

\* One iteration of `while offset <= total_products`: an empty page continues
\* without advancing the offset.
Loewe_fetch_data_page(x) ==
    /\ At(x, "page", Loewe)
    /\ \E r \in Pages :
        LET p == Fetch(parser[x], parser[x].offset, r)
            rows == p.all_products \o Rep(Row(p, p.offset), r.n)
        IN
        IF r.st # "ok" THEN Set(x, Return(p, <<>>, "except"))
        ELSE IF r.n = 0 THEN Set(x, p)
        ELSE IF p.offset + p.limit <= p.total
        THEN Set(x, [p EXCEPT !.all_products = rows, !.offset = @ + p.limit])
        ELSE Set(x, Return([p EXCEPT !.offset = @ + p.limit], rows, "returned"))
    /\ UNCHANGED Frame1

----------------------------------------------------------------------------
\* StoneIslandProductParser.fetch_data: data.count, "" when absent; comparing the
\* start offset with a non-number raises TypeError.
StoneIsland_num_products(r) ==
    IF r.tot \in {Missing, Unparsable} THEN Unparsable ELSE r.tot

StoneIsland_fetch_data_first(x) ==
    /\ At(x, "first", StoneIsland)
    /\ \E r \in {Ok(t, 0) : t \in Totals(MaxTotal)} \cup {Err} :
        LET p == [Fetch(parser[x], parser[x].start, r) EXCEPT
                      !.first_total = Declared(r)]
            total == StoneIsland_num_products(r)
        IN
        IF r.st # "ok" \/ total = Unparsable
        THEN Set(x, Return(p, <<>>, "except"))
        ELSE IF p.start <= total
        THEN Set(x, [p EXCEPT !.pc = "page", !.offset = p.start, !.total = total])
        ELSE Set(x, Return(p, <<>>, "returned"))
    /\ UNCHANGED Frame1

\* One iteration of `while start <= num_products`.
StoneIsland_fetch_data_page(x) ==
    /\ At(x, "page", StoneIsland)
    /\ \E r \in Pages :
        LET p == Fetch(parser[x], parser[x].offset, r)
            rows == p.all_products \o Rep(Row(p, p.offset), r.n)
        IN
        IF r.st # "ok" THEN Set(x, Return(p, <<>>, "except"))
        ELSE IF p.offset + p.limit <= p.total
        THEN Set(x, [p EXCEPT !.all_products = rows, !.offset = @ + p.limit])
        ELSE Set(x, Return([p EXCEPT !.offset = @ + p.limit], rows, "returned"))
    /\ UNCHANGED Frame1

----------------------------------------------------------------------------
\* DolceGabbanaProductParser: process_categories accumulates in the local
\* all_data; with no category it fetches once with the empty category.

DolceGabbana_process_categories(x) ==
    /\ At(x, "loop", DolceGabbana)
    /\ LET p == parser[x]
           enter == [p EXCEPT !.pc = "token", !.all_products = <<>>, !.offset = 0,
                              !.total = 0, !.first_total = NoPayload, !.fetched = <<>>,
                              !.bearer_token = "unset", !.outcome = "none"]
       IN
       IF p.li >= 1 /\ p.ci < p.nc
       THEN Set(x, [enter EXCEPT !.ci = @ + 1])
       ELSE IF p.li < p.nl
       THEN IF p.nc > 0
            THEN Set(x, [p EXCEPT !.li = @ + 1, !.ci = 0, !.data = <<>>])
            ELSE Set(x, [enter EXCEPT !.li = @ + 1, !.ci = 0, !.data = <<>>])
       ELSE Set(x, Leave(p))
    /\ UNCHANGED Frame1

\* fetch_products returns rows, which process_categories appends to all_data.
DolceGabbana_return(p, rows, how) ==
    [p EXCEPT !.pc = "loop", !.all_data = @ \o rows, !.all_products = <<>>,
              !.returned = @ + Len(rows),
              !.offset = 0, !.outcome = how]

DolceGabbana_get_bearer_token(x) ==
    /\ At(x, "token", DolceGabbana)
    /\ \E t \in Tokens :
        LET p == parser[x] IN
        IF t = "raise" THEN Set(x, Raise(p))
        ELSE IF t = "none"
        THEN Set(x, DolceGabbana_return([p EXCEPT !.bearer_token = "none"], <<>>,
                                        "no_token"))
        ELSE Set(x, [p EXCEPT !.pc = "page", !.bearer_token = "found"])
    /\ UNCHANGED Frame1

StopPages ==
    {Ok(t, n) : t \in (0..MaxCount) \cup {Missing}, n \in 0..MaxItems}
    \cup {Err, BadStatus}

\* The loop without its stop on an empty page.
DolceGabbana_no_products_ignored(r) == FALSE

\* `if not products: break`.
DolceGabbana_no_products(r) == r.n = 0

\* One iteration of `while True` of fetch_products.
DolceGabbana_fetch_products(x) ==
    /\ At(x, "page", DolceGabbana)
    /\ \E r \in StopPages :
        LET p == Fetch(parser[x], parser[x].offset, r)
            rows == p.all_products \o Rep(Row(p, p.offset), r.n)
        IN
        IF r.st = "err" THEN Set(x, Raise(p))
        ELSE IF r.st = "status" \/ DolceGabbana_no_products(r)
        THEN Set(x, DolceGabbana_return(p, p.all_products, "returned"))
        ELSE IF r.tot = Missing THEN Set(x, Raise(p))
        ELSE IF p.offset + p.limit >= r.tot
        THEN Set(x, DolceGabbana_return([p EXCEPT !.total = r.tot], rows, "returned"))
        ELSE Set(x, [p EXCEPT !.all_products = rows, !.offset = @ + p.limit,
                              !.total = r.tot])
    /\ UNCHANGED Frame1

----------------------------------------------------------------------------
\* MonclerProductParser: process_categories calls fetch_moncler_products once per
\* country code; fetch_moncler_products loops over the categories itself and has
\* no exception handler.

Moncler_process_categories(x) ==
    /\ At(x, "loop", Moncler)
    /\ LET p == parser[x] IN
       IF p.li < p.nl
       THEN Set(x, [p EXCEPT !.li = @ + 1, !.ci = 0, !.all_products = <<>>,
                             !.pc = "categories"])
       ELSE Set(x, Leave(p))
    /\ UNCHANGED Frame1

\* `for category in categories` of fetch_moncler_products, and its return.
Moncler_fetch_moncler_products(x) ==
    /\ At(x, "categories", Moncler)
    /\ LET p == parser[x] IN
       IF p.ci < p.nc
       THEN Set(x, [p EXCEPT !.ci = @ + 1, !.pc = "page", !.offset = 0, !.total = 0,
                             !.fetched = <<>>, !.outcome = "none"])
       ELSE Set(x, [p EXCEPT !.pc = "loop", !.all_data = @ \o p.all_products,
                             !.returned = @ + Len(p.all_products),
                             !.all_products = <<>>, !.offset = 0, !.total = 0,
                             !.fetched = <<>>, !.outcome = "none"])
    /\ UNCHANGED Frame1

\* `if not products: break`.
Moncler_no_products(r) == r.n = 0

\* The running-count loop that never compares its count with the total.
Moncler_reached_never(offset, total_count) == FALSE

\* `if offset >= total_count: break`.
Moncler_reached(offset, total_count) == offset >= total_count

\* One iteration of `while True` of fetch_moncler_products.
Moncler_fetch_page(x) ==
    /\ At(x, "page", Moncler)
    /\ \E r \in StopPages \ {BadStatus} :
        LET p == Fetch(parser[x], parser[x].offset, r)
            rows == p.all_products \o Rep(Row(p, p.offset), r.n)
        IN
        IF r.st = "err" THEN Set(x, Raise(p))
        ELSE IF Moncler_no_products(r)
        THEN Set(x, [p EXCEPT !.pc = "categories", !.outcome = "returned"])
        ELSE IF r.tot = Missing THEN Set(x, Raise(p))
        ELSE IF Moncler_reached(p.offset + r.n, r.tot)
        THEN Set(x, [p EXCEPT !.pc = "categories", !.all_products = rows,
                              !.offset = @ + r.n, !.total = r.tot,
                              !.outcome = "returned"])
        ELSE Set(x, [p EXCEPT !.all_products = rows, !.offset = @ + r.n,
                              !.total = r.tot])
    /\ UNCHANGED Frame1

----------------------------------------------------------------------------
\* The tail of process_categories and send_output: the Publisher.

\* send_output with the notification sent before the local files are deleted.
After_notify_first(pc) ==
    CASE pc = "to_csv" -> "upload_data"
      [] pc = "upload_data" -> "upload_log"
      [] pc = "upload_log" -> "notify"
      [] pc = "notify" -> "cleanup"
      [] pc = "cleanup" -> "done"

\* The order of the statements of the tail of process_categories and of
\* send_output: the position that follows position pc.
After(pc) ==
    CASE pc = "to_csv" -> "upload_data"
      [] pc = "upload_data" -> "upload_log"
      [] pc = "upload_log" -> "cleanup"
      [] pc = "cleanup" -> "notify"
      [] pc = "notify" -> "done"

\* The DataFrame that process_categories passes to to_csv.
Frame(p) == IF p.brand_id = Moncler THEN p.all_data ELSE p.data

Url(name) == <<"https", name>>

to_csv(x) ==
    /\ parser[x].pc = "to_csv"
    /\ LET p == parser[x]
           name == OutName(p.brand_id, p.code)
       IN
       /\ files' = files \cup {name}
       /\ Set(x, [p EXCEPT !.pc = After("to_csv"), !.output_filename = name,
                           !.artifact = Frame(p), !.steps = Append(@, "serialize")])
    /\ UNCHANGED <<send_out_endpoint, uuid_next, inbox, settings, Outside>>

\* upload_file_to_space: the public URL, or None when the upload fails.
upload_file_to_space(name, ok) == IF ok THEN Url(name) ELSE None

\* self.count without the legacy offset.
Count_of_rows(frame) == Len(frame)

\* self.count as process_categories sets it.
Count(frame) == Len(frame) - 1

upload_data(x) ==
    /\ parser[x].pc = "upload_data"
    /\ \E ok \in BOOLEAN :
        LET p == parser[x] IN
        Set(x, [p EXCEPT !.pc = After("upload_data"),
                         !.upload_url = upload_file_to_space(p.output_filename, ok),
                         !.count = Count(Frame(p)),
                         !.stream = "open",
                         !.steps = Append(@, "upload_dataset")])
    /\ UNCHANGED <<send_out_endpoint, uuid_next, files, inbox, settings, Outside>>

\* logging.shutdown(): the handlers of every logger of the process are flushed
\* and closed, those of the other executions included; a file handler opens its
\* file again, creating it if it is gone, at the next record it is given.
shutdown(ps) ==
    [y \in Execs |-> [ps[y] EXCEPT !.stream = IF @ = "none" THEN @ ELSE "closed"]]

\* The files after a record is logged by execution p.
emit(fs, p) == IF p.stream = "closed" THEN fs \cup {p.log_file_name} ELSE fs

send_output_upload(x) ==
    /\ parser[x].pc = "upload_log"
    /\ \E ok \in BOOLEAN :
        LET p == parser[x] IN
        parser' = shutdown([parser EXCEPT ![x] =
                      [p EXCEPT !.pc = After("upload_log"),
                                !.log_url = upload_file_to_space(p.log_file_name, ok),
                                !.steps = Append(@, "upload_log")]])
    /\ UNCHANGED <<send_out_endpoint, uuid_next, files, inbox, settings, Outside>>

\* The files left when os.remove raises on the dataset (nothing is removed), on
\* the log (the dataset is removed), or on neither.
Removed(p, how) ==
    IF how = "output_raises" THEN {}
    ELSE IF how = "log_raises" THEN {p.output_filename}
    ELSE {p.output_filename, p.log_file_name}

\* A cleanup that calls os.remove without looking whether the file exists.
Raises_unguarded(fs, p, how) == how # "removed"

\* os.remove is called, and so can raise, only on a file that os.path.exists finds.
Raises(fs, p, how) ==
    \/ how = "output_raises" /\ p.output_filename \in fs
    \/ how = "log_raises" /\ p.log_file_name \in fs

\* The try block of send_output on the files fs: what is left of them, and
\* whether the except branch was taken.
remove(fs, p, how) == fs \ Removed(p, IF Raises(fs, p, how) THEN how ELSE "removed")

removal(fs, p, how) == IF Raises(fs, p, how) THEN how ELSE "removed"

\* The cleanup logs what it removed or the error, after which the stream is open.
send_output_cleanup(x) ==
    /\ parser[x].pc = "cleanup"
    /\ \E how \in {"removed", "output_raises", "log_raises"} :
        LET p == parser[x] IN
        /\ files' = remove(files, p, how)
        /\ Set(x, [p EXCEPT !.pc = After("cleanup"), !.steps = Append(@, "delete"),
                            !.stream = "open", !.removal = removal(files, p, how)])
    /\ UNCHANGED <<send_out_endpoint, uuid_next, inbox, settings, Outside>>

\* The completion notification: POST {send_out_endpoint}/job_complete.
Notification(p, to) ==
    [to |-> to, job_id |-> p.job_id, resultUrl |-> p.upload_url,
     logUrl |-> p.log_url, count |-> p.count, delivered |-> TRUE]

\* A send_output that posts again when the request failed.
notified_or_again(pc, delivered) == IF delivered THEN After(pc) ELSE pc

\* `except requests.RequestException`: the failure is logged and send_output
\* returns as it does after a success.
notified(pc, delivered) == After(pc)

\* "Finishing send output" is logged, then the request is made, which reaches
\* the endpoint or fails on the way, and its outcome is logged.
send_output_notify(x) ==
    /\ parser[x].pc = "notify"
    /\ \E delivered \in BOOLEAN :
        LET p == parser[x]
            n == [Notification(p, send_out_endpoint) EXCEPT !.delivered = delivered]
        IN
        /\ files' = emit(files, p)
        /\ Set(x, [p EXCEPT !.pc = notified("notify", delivered),
                            !.notifications = Append(@, n),
                            !.stream = "open",
                            !.steps = Append(@, "notify")])
    /\ UNCHANGED <<send_out_endpoint, uuid_next, inbox, settings, Outside>>

----------------------------------------------------------------------------
\* session.get(url) of a session whose adapter carries the Retry object: the
\* attempts of one GET, then response.raise_for_status().

\* Retry.is_retry: the method is GET, so the status decides.
is_retry(status) == status \in status_forcelist

\* Retry.increment: one failure is counted against total.
increment(total) == total - 1

\* Retry.is_exhausted: the counter has gone below zero.
is_exhausted(total) == total < 0

\* One attempt.  After a failure that is retried the counter is decremented, and
\* MaxRetryError is raised when the decremented counter is exhausted.
urlopen ==
    /\ http.state = "sending"
    /\ \E a \in Answers :
        LET made == [http EXCEPT !.attempts = Append(@, a)] IN
        IF a = TransportFailure \/ is_retry(a)
        THEN IF is_exhausted(increment(http.total))
             THEN http' = [made EXCEPT !.total = increment(@), !.state = "MaxRetryError"]
             ELSE http' = [made EXCEPT !.total = increment(@)]
        ELSE http' = [made EXCEPT !.state = "response"]
    /\ UNCHANGED <<parser, send_out_endpoint, uuid_next, files, inbox, settings,
                   utb_BrandScanJobs, manager, url>>

\* response.raise_for_status(): HTTPError for a status of 400 or more.
raise_for_status ==
    /\ http.state = "response"
    /\ LET status == http.attempts[Len(http.attempts)] IN
       http' = [http EXCEPT !.state = IF status >= 400 THEN "HTTPError" ELSE "ok"]
    /\ UNCHANGED <<parser, send_out_endpoint, uuid_next, files, inbox, settings,
                   utb_BrandScanJobs, manager, url>>

\* One GET, with no execution running.
RetryInit ==
    /\ parser = [x \in Execs |-> NoParser]
    /\ send_out_endpoint = None
    /\ uuid_next = 0
    /\ files = {}
    /\ inbox = <<>>
    /\ settings = [nl |-> 0, nc |-> 0, limit |-> 1, start |-> 0]
    /\ http = NoRequest
    /\ utb_BrandScanJobs = NoResults
    /\ manager = NoCalls
    /\ url = NoFormat

RetryNext == urlopen \/ raise_for_status

RetrySpec == RetryInit /\ [][RetryNext]_vars

----------------------------------------------------------------------------
\* The steps of execution x.
Step(x) ==
    \/ brand_batch_endpoint(x)
    \/ run_parser(x)
    \/ process_categories(x)
    \/ Gucci_fetch_data_first(x)
    \/ Gucci_fetch_data_page(x)
    \/ LoroPiana_fetch_data_first(x)
    \/ LoroPiana_fetch_data_page(x)
    \/ AlexanderMcqueen_fetch_data_first(x)
    \/ AlexanderMcqueen_fetch_data_page(x)
    \/ SaintLaurent_fetch_data_first(x)
    \/ SaintLaurent_fetch_data_page(x)
    \/ Chloe_fetch_data(x)
    \/ Chloe_get_product_info(x)
    \/ CanadaGoose_fetch_data(x)
    \/ Loewe_get_bearer_token(x)
    \/ Loewe_fetch_data_first(x)
    \/ Loewe_fetch_data_page(x)
    \/ StoneIsland_fetch_data_first(x)
    \/ StoneIsland_fetch_data_page(x)
    \/ DolceGabbana_process_categories(x)
    \/ DolceGabbana_get_bearer_token(x)
    \/ DolceGabbana_fetch_products(x)
    \/ Moncler_process_categories(x)
    \/ Moncler_fetch_moncler_products(x)
    \/ Moncler_fetch_page(x)
    \/ to_csv(x)
    \/ upload_data(x)
    \/ send_output_upload(x)
    \/ send_output_cleanup(x)
    \/ send_output_notify(x)

Next == \E x \in Execs : Step(x)

Spec == Init /\ [][Next]_vars

\* Every background task runs in its own worker thread and every request it makes
\* is answered or fails: a task that can take a step eventually takes one.
FairSpec == Spec /\ \A x \in Execs : WF_vars(Step(x))

----------------------------------------------------------------------------
\* The Manager (site_parsing_htmls/Manager_Node/main.py): POST /job_complete
\* queues update_sql_job, POST /submit_job queues procces_brand_single; both
\* answer at once and the queued task runs afterwards in a worker thread.

\* Calls made to the Manager by callers other than the executions of the Agent.
MaxCalls == 2

\* The endpoint at which the Manager listens.
ManagerUrl == "E1"

\* The query parameters of a POST /job_complete: the names given, and the values.
Query(given, job_id, resultUrl, logUrl, count, startTime) ==
    [given |-> given, job_id |-> job_id, resultUrl |-> resultUrl, logUrl |-> logUrl,
     count |-> count, startTime |-> startTime]

\* The parameters that send_output of the Agent puts in its request.
send_output_params(n) ==
    Query({"job_id", "resultUrl", "logUrl", "count"},
          n.job_id, n.resultUrl, n.logUrl, n.count, "")

\* The parameters that the signature of the /job_complete handler declares,
\* none with a default: a request lacking one is answered 422 by the framework
\* and the handler is not called.
job_complete_parameters == {"job_id", "resultUrl", "logUrl", "count", "startTime"}

Validates(q) == job_complete_parameters \subseteq q.given

\* Requests of callers that give every parameter: two results for each job id.
Queries ==
    {Query(job_complete_parameters, j, Url(r[1]), Url(r[2]), r[3], "T1") :
        j \in JobIds, r \in {<<"R1", "L1", 0>>, <<"R2", "L2", 5>>}}

NoQuery == Query({}, "", None, None, 0, "")

\* A queued background task, and the answer its request got.
Task(kind, job_id, q) ==
    [kind |-> kind, job_id |-> job_id, query |-> q, pc |-> "queued",
     reply |-> "Notification sent in the background", outcome |-> "none",
     alerts |-> 0]

\* A handler that runs the task before it answers.
add_task_inline(tasks, t) == Append(tasks, [t EXCEPT !.pc = "raised", !.reply = ""])

\* background_tasks.add_task: the task runs after the answer is sent.
add_task(tasks, t) == Append(tasks, t)

Manager_Frame ==
    <<parser, send_out_endpoint, uuid_next, files, inbox, settings, http, url>>

\* The number of calls made by callers other than the Agent.
Called == Len(manager.tasks)

\* The handler of POST /job_complete for request q; x is the execution of the
\* Agent that sent it, 0 for another caller.
job_complete(q, x) ==
    LET answered(status) ==
            IF x \in Execs
            THEN [manager EXCEPT !.answers[x] = Append(@, status)]
            ELSE manager
    IN
    IF Validates(q)
    THEN manager' = [answered(200) EXCEPT
                        !.tasks = add_task(@, Task("update_sql_job", q.job_id, q))]
    ELSE manager' = [answered(422) EXCEPT !.rejected = @ + 1]

\* POST /job_complete: a notification of an execution of the Agent whose
\* endpoint is the Manager (the execution only logs the answer), or a request
\* of another caller.
Manager_brand_batch_endpoint ==
    /\ \/ \E x \in Execs :
            LET k == Len(manager.answers[x]) + 1 IN
            /\ k <= Len(parser[x].notifications)
            /\ parser[x].notifications[k].to = ManagerUrl
            /\ parser[x].notifications[k].delivered
            /\ job_complete(send_output_params(parser[x].notifications[k]), x)
       \/ /\ Called < MaxCalls
          /\ \E q \in Queries : job_complete(q, 0)
    /\ UNCHANGED <<Manager_Frame, utb_BrandScanJobs>>

\* The UPDATE of update_sql_job that would insert a row for an unknown job.
Update_or_insert(table, q, now) ==
    [j \in DOMAIN table \cup {q.job_id} |->
        IF j = q.job_id
        THEN [BrandId |-> UnknownBrand, ScanUrl |-> "",
              Parsing |-> <<q.resultUrl, q.logUrl, q.count, q.startTime, now>>]
        ELSE table[j]]

\* Update utb_BrandScanJobs Set ParsingResultUrl, ParsingLogURL, ParsingCount,
\* ParsingStart, ParsingEnd = getdate() Where ID = job_id.
Update(table, q, now) ==
    [j \in DOMAIN table |->
        IF j = q.job_id
        THEN [table[j] EXCEPT
                 !.Parsing = <<q.resultUrl, q.logUrl, q.count, q.startTime, now>>]
        ELSE table[j]]

\* update_sql_job: the lookup of the public address or the database may raise,
\* and then the task ends with the table untouched.
update_sql_job(i) ==
    /\ i \in 1..Len(manager.tasks)
    /\ manager.tasks[i].kind = "update_sql_job"
    /\ manager.tasks[i].pc = "queued"
    /\ \E how \in {"ok", "ipify_raises", "execute_raises"} :
        IF how = "ok"
        THEN /\ utb_BrandScanJobs' =
                    Update(utb_BrandScanJobs, manager.tasks[i].query, manager.getdate)
             /\ manager' = [manager EXCEPT !.tasks[i].pc = "done",
                                           !.tasks[i].outcome = how,
                                           !.getdate = @ + 1]
        ELSE /\ manager' = [manager EXCEPT !.tasks[i].pc = "raised",
                                           !.tasks[i].outcome = how]
             /\ UNCHANGED utb_BrandScanJobs
    /\ UNCHANGED Manager_Frame

\* POST /submit_job.
Manager_brand_single ==
    /\ Called < MaxCalls
    /\ \E j \in JobIds :
        manager' = [manager EXCEPT
                       !.tasks = add_task(@, Task("procces_brand_single", j, NoQuery))]
    /\ UNCHANGED <<Manager_Frame, utb_BrandScanJobs>>

\* What can happen to procces_brand_single for job j: the job or endpoint
\* queries raise or return no row (df.iloc raises), the POST to
\* {send_in_endpoint}/run_html raises, or it is answered with a status; for a
\* status other than 200 send_email is called, which sends the alert or prints
\* the error of the mail client.
Alerting == {"alert_sent", "alert_failed"}

Dispatches(j) ==
    IF j \in DOMAIN utb_BrandScanJobs
    THEN {"lookup_raises", "post_raises", "status_200", "alert_sent", "alert_failed"}
    ELSE {"lookup_raises"}

procces_brand_single(i) ==
    /\ i \in 1..Len(manager.tasks)
    /\ manager.tasks[i].kind = "procces_brand_single"
    /\ manager.tasks[i].pc = "queued"
    /\ \E how \in Dispatches(manager.tasks[i].job_id) :
        manager' = [manager EXCEPT
                       !.tasks[i].pc = IF how \in {"lookup_raises", "post_raises"}
                                       THEN "raised" ELSE "done",
                       !.tasks[i].outcome = how,
                       !.tasks[i].alerts = IF how \in Alerting THEN @ + 1 ELSE @,
                       !.emails = IF how = "alert_sent" THEN @ + 1 ELSE @]
    /\ UNCHANGED <<Manager_Frame, utb_BrandScanJobs>>

\* The Manager together with one request to the Agent, for Canada Goose or for
\* a brand without strategy, whose callback endpoint is the Manager or not.
ManagerInit ==
    /\ parser = [x \in Execs |-> NoParser]
    /\ send_out_endpoint = None
    /\ uuid_next = 0
    /\ files = {}
    /\ inbox \in {<<Request("J1", b, e)>> : b \in ConcurrentBrands, e \in Endpoints}
    /\ settings = [nl |-> 1, nc |-> 1, limit |-> 1, start |-> 0]
    /\ http = NoRequest
    /\ utb_BrandScanJobs = NoResults
    /\ manager = NoCalls
    /\ url = NoFormat

\* The steps of an execution of the Agent that such a request can take.
AgentStep(x) ==
    \/ brand_batch_endpoint(x)
    \/ run_parser(x)
    \/ process_categories(x)
    \/ CanadaGoose_fetch_data(x)
    \/ to_csv(x)
    \/ upload_data(x)
    \/ send_output_upload(x)
    \/ send_output_cleanup(x)
    \/ send_output_notify(x)

ManagerNext ==
    \/ \E x \in Execs : AgentStep(x)
    \/ Manager_brand_batch_endpoint
    \/ Manager_brand_single
    \/ \E i \in 1..MaxCalls : update_sql_job(i)
    \/ \E i \in 1..MaxCalls : procces_brand_single(i)

ManagerSpec == ManagerInit /\ [][ManagerNext]_vars

----------------------------------------------------------------------------
\* The cleanup of send_output as an operation on the working directory, applied
\* up to MaxCleanups times by each of two executions that have serialized their
\* datasets and uploaded their logs.

MaxCleanups == 3

\* ok: whether the upload of the dataset succeeded.
AtCleanup(x, ok) ==
    [NoParser EXCEPT !.pc = "cleanup", !.brand_id = CanadaGoose, !.got = "present",
                     !.code = x, !.log_file_name = LogName(CanadaGoose, x),
                     !.output_filename = OutName(CanadaGoose, x),
                     !.upload_url =
                         upload_file_to_space(OutName(CanadaGoose, x), ok),
                     !.stream = "closed"]

CleanupInit ==
    /\ parser \in [Execs -> {AtCleanup(x, ok) : x \in Execs, ok \in BOOLEAN}]
    /\ \A x \in Execs : parser[x].code = x
    /\ send_out_endpoint = None
    /\ uuid_next = 2
    /\ files = UNION {{LogName(CanadaGoose, x), OutName(CanadaGoose, x)} : x \in Execs}
    /\ inbox = <<>>
    /\ settings = [nl |-> 1, nc |-> 1, limit |-> 1, start |-> 0]
    /\ http = NoRequest
    /\ utb_BrandScanJobs = NoResults
    /\ manager = NoCalls
    /\ url = NoFormat

\* The try block of send_output, run once more: it logs a record only when it
\* finds a file.
cleanup(x) ==
    /\ Len(parser[x].steps) < MaxCleanups
    /\ \E how \in {"removed", "output_raises", "log_raises"} :
        LET p == parser[x]
            found == p.output_filename \in files \/ p.log_file_name \in files
        IN
        /\ files' = remove(files, p, how)
        /\ Set(x, [p EXCEPT !.steps = Append(@, "delete"),
                            !.stream = IF found THEN "open" ELSE @,
                            !.removal = removal(files, p, how)])
    /\ UNCHANGED <<send_out_endpoint, uuid_next, inbox, settings, Outside>>

CleanupNext == \E x \in Execs : cleanup(x)

CleanupSpec == CleanupInit /\ [][CleanupNext]_vars

----------------------------------------------------------------------------
\* WebsiteParser.format_url on strings, which are sequences of characters.

MaxUrlLen == 5
MaxFormats == 2

Characters == {"h", "t", "p", "/", "x"}

RECURSIVE Strings(_)
Strings(n) ==
    IF n = 0 THEN {<<>>}
    ELSE LET shorter == Strings(n - 1) IN
         shorter \cup {Append(u, c) : u \in {v \in shorter : Len(v) = n - 1},
                                      c \in Characters}

startswith(u, prefix) ==
    Len(u) >= Len(prefix) /\ SubSeq(u, 1, Len(prefix)) = prefix

\* A format_url that completes every value it is given.
format_url_always(u) ==
    IF u # NoUrl /\ u # <<>> THEN <<"h", "t", "t", "p", "s", ":">> \o u ELSE <<>>

\* `if url: return url if url.startswith('http') else 'https:' + url`, else "".
format_url(u) ==
    IF u # NoUrl /\ u # <<>>
    THEN IF startswith(u, <<"h", "t", "t", "p">>) THEN u
         ELSE <<"h", "t", "t", "p", "s", ":">> \o u
    ELSE <<>>

FormatInit ==
    /\ parser = [x \in Execs |-> NoParser]
    /\ send_out_endpoint = None
    /\ uuid_next = 0
    /\ files = {}
    /\ inbox = <<>>
    /\ settings = [nl |-> 0, nc |-> 0, limit |-> 1, start |-> 0]
    /\ http = NoRequest
    /\ utb_BrandScanJobs = NoResults
    /\ manager = NoCalls
    /\ url \in [arg : Strings(MaxUrlLen) \cup {NoUrl}, results : {<<>>}]

\* format_url is called on the value, then on what it returned.
format_url_call ==
    /\ Len(url.results) < MaxFormats
    /\ LET n == Len(url.results)
           u == IF n = 0 THEN url.arg ELSE url.results[n]
       IN url' = [url EXCEPT !.results = Append(@, format_url(u))]
    /\ UNCHANGED <<parser, send_out_endpoint, uuid_next, files, inbox, settings,
                   http, utb_BrandScanJobs, manager>>

FormatNext == format_url_call

FormatSpec == FormatInit /\ [][FormatNext]_vars

----------------------------------------------------------------------------
\* Properties.

KnownPageBrands == {Gucci, LoroPiana, AlexanderMcqueen, SaintLaurent}
KnownTotalBrands == {Loewe, StoneIsland}
StopOnEmptyBrands == {DolceGabbana, Moncler}

\* The offsets of a record of requests, and the page indices 0..n-1.
Offsets(f) == [i \in 1..Len(f) |-> f[i].off]
Indices(n) == [i \in 1..n |-> i - 1]

IsPrefix(s, t) == Len(s) <= Len(t) /\ SubSeq(t, 1, Len(s)) = s

\* The rows of frame d that come from locale l and category c.
RowsOf(d, l, c) == SelectSeq(d, LAMBDA row : row[1] = l /\ row[2] = c)

\* The frame in which a strategy accumulates the rows of its categories.
Accumulator(p) ==
    IF p.brand_id \in {Moncler, DolceGabbana} THEN p.all_data ELSE p.data

\* C1: every completion notification of an execution goes to the callback
\* endpoint that its own /run_parser request supplied.
C1_NotifiesOwnEndpoint ==
    \A x \in Execs : \A i \in 1..Len(parser[x].notifications) :
        parser[x].notifications[i].to = parser[x].endpoint

\* C2: an execution that resolved a strategy never notifies more than once, and
\* when it has ended it has notified exactly once.
C2_NotifiesExactlyOnce ==
    \A x \in Execs :
        /\ Len(parser[x].notifications) <= 1
        /\ parser[x].pc \in {"done", "raised"} => Len(parser[x].notifications) = 1

\* C3: the accumulated rows are only ever extended (the rows of an earlier locale
\* are not discarded), and the rows serialized are the rows accumulated.
C3_DatasetKeepsAllRows ==
    [][\A x \in Execs :
        /\ IsPrefix(Accumulator(parser[x]), Accumulator(parser'[x]))
        /\ (parser[x].pc = "to_csv" /\ parser'[x].pc # "to_csv")
               => parser'[x].artifact = Accumulator(parser[x])]_vars

\* C4: the count of a completion notification is the number of rows of the
\* serialized dataset minus one, so -1 for an empty dataset.
C4_CountIsRowsMinusOne ==
    \A x \in Execs : \A i \in 1..Len(parser[x].notifications) :
        parser[x].notifications[i].count = Len(parser[x].artifact) - 1

C4_Witness ==
    \E x \in Execs : \E y \in Execs :
        /\ Len(parser[x].notifications) = 1
        /\ parser[x].artifact = <<>>
        /\ parser[x].notifications[1].count = -1
        /\ Len(parser[y].notifications) = 1
        /\ Len(parser[y].artifact) = 1
        /\ parser[y].notifications[1].count = 0

\* C5: the Publisher serializes, uploads the dataset, uploads the log, deletes
\* the local files and notifies, in this order, each step after the previous one.
PublisherSteps == <<"serialize", "upload_dataset", "upload_log", "delete", "notify">>

C5_PublisherOrder ==
    \A x \in Execs :
        /\ IsPrefix(parser[x].steps, PublisherSteps)
        /\ Len(parser[x].notifications) > 0 => parser[x].steps = PublisherSteps

C5_Witness ==
    \E x \in Execs :
        /\ parser[x].steps = PublisherSteps
        /\ parser[x].pc = "done"
        /\ parser[x].upload_url # None
        /\ parser[x].log_url # None

\* C6: a category of a known-page-count strategy whose first answer declares N
\* pages is requested exactly N times, at the page indices 0..N-1 in order.
C6_FetchedExactlyNTimes ==
    \A x \in Execs :
        LET p == parser[x] IN
        (/\ p.brand_id \in KnownPageBrands
         /\ p.pc = "loop"
         /\ p.outcome = "returned"
         /\ p.total >= 1)
            => Offsets(p.fetched) = Indices(p.total)

\* C7: the page requests of Loewe and Stone Island are at the offsets start,
\* start + size, ... and each is at an offset strictly below the total.
C7_PageOffsetsBelowTotal ==
    \A x \in Execs :
        LET p == parser[x] IN
        (p.brand_id \in KnownTotalBrands /\ p.pc \in {"page", "loop"})
            => \A i \in 2..Len(p.fetched) :
                   /\ p.fetched[i].off = p.start + (i - 2) * p.limit
                   /\ p.fetched[i].off < p.total

\* C8: the fetch loop of a category makes finitely many requests and returns.
InFetchLoop(x) == parser[x].pc \in {"first", "page"}

C8_FetchLoopTerminates ==
    \A x \in Execs : InFetchLoop(x) ~> ~InFetchLoop(x)

\* C9: when the first answer of a category declares a total of zero, or no total,
\* or one that is not a number, no further request is made for the category and
\* it contributes no row.
C9_ZeroTotalNoFetch ==
    \A x \in Execs :
        LET p == parser[x] IN
        (/\ p.brand_id \in KnownPageBrands \cup KnownTotalBrands
         /\ p.pc \in {"page", "loop"}
         /\ p.first_total \in {0, Missing, Unparsable})
            => /\ Len(p.fetched) <= 1
               /\ p.all_products = <<>>
               /\ RowsOf(p.data, p.li, p.ci) = <<>>

\* C10: in the stop-on-empty loops an answer with no item is the last request of
\* its category; a loop left after a non-empty page had reached the reported
\* total; so three non-empty pages followed by an empty one make exactly four
\* requests.
RECURSIVE Retrieved(_, _)
Retrieved(f, k) == IF k = 0 THEN 0 ELSE Retrieved(f, k - 1) + f[k].n

\* The cumulative offset after the requests recorded in p.fetched.
Cumulative(p) ==
    IF p.brand_id = DolceGabbana THEN Len(p.fetched) * p.limit
    ELSE Retrieved(p.fetched, Len(p.fetched))

C10_StopOnEmpty ==
    \A x \in Execs :
        LET p == parser[x]
            f == p.fetched
        IN
        p.brand_id \in StopOnEmptyBrands =>
            /\ \A i \in 1..(Len(f) - 1) : f[i].n > 0
            /\ (p.outcome = "returned" /\ Len(f) > 0 /\ f[Len(f)].n > 0)
                   => Cumulative(p) >= p.total
            /\ (Len(f) >= 4 /\ f[1].n > 0 /\ f[2].n > 0 /\ f[3].n > 0 /\ f[4].n = 0)
                   => Len(f) = 4

C10_Witness ==
    \E x \in Execs :
        LET p == parser[x]
            f == p.fetched
        IN
        /\ p.brand_id \in StopOnEmptyBrands
        /\ p.outcome = "returned"
        /\ Len(f) = 4
        /\ f[1].n > 0 /\ f[2].n > 0 /\ f[3].n > 0 /\ f[4].n = 0
        /\ Len(p.all_products) = 3 \/ Len(p.all_data) >= 3

\* C11: Moncler's cumulative count of a category starts at 0 and grows by the
\* size of each page, and a request is made only while the count is below the
\* total that the source reported last.
C11_RunningCountStops ==
    \A x \in Execs :
        LET p == parser[x]
            f == p.fetched
        IN
        (p.brand_id = Moncler /\ p.pc \in {"page", "categories"}) =>
            /\ \A i \in 1..Len(f) : f[i].off = Retrieved(f, i - 1)
            /\ p.offset = Retrieved(f, Len(f))
            /\ (p.pc = "page" /\ Len(f) > 0) => p.offset < p.total

C11_Witness ==
    \E x \in Execs :
        LET p == parser[x]
            f == p.fetched
        IN
        /\ p.brand_id = Moncler
        /\ p.pc = "categories"
        /\ p.outcome = "returned"
        /\ Len(f) = 2
        /\ f[2].n > 0
        /\ p.offset = 2
        /\ p.total = 2

\* C12: one GET makes at most 5 attempts; only the statuses 429, 500, 502, 503,
\* 504 and transport failures are followed by another attempt (never a 404);
\* 503 four times and then 200 succeeds at the 5th attempt; 503 five times
\* exhausts the retries and the GET fails.
Failed(st) == st.state \in {"MaxRetryError", "HTTPError"}

C12_AtMostFiveAttempts ==
    LET a == http.attempts
        n == Len(a)
    IN
    /\ n <= 5
    /\ \A i \in 1..(n - 1) : a[i] \in status_forcelist \cup {TransportFailure}
    /\ (n = 5 /\ \A i \in 1..4 : a[i] = 503) =>
           IF a[5] = 200 THEN ~Failed(http)
           ELSE IF a[5] = 503 THEN Failed(http)
           ELSE TRUE

\* C13: a step in which the fetch of a category fails returns to the loops of
\* process_categories (the job goes on towards the Publisher) and keeps the rows
\* accumulated so far.
Fetching(p) == p.pc \in {"first", "page"}

C13_FailureFailsOnlyCategory ==
    [][\A x \in Execs :
        (Fetching(parser[x]) /\ parser'[x].outcome \in {"except", "raised"})
            => /\ parser'[x].pc = "loop"
               /\ IsPrefix(Accumulator(parser[x]), Accumulator(parser'[x]))]_vars

\* C14: Dolce & Gabbana and Loewe request products of a category only with a
\* bearer token extracted for it; when the extraction yields no token the
\* category adds no row, no product is requested, and the loops go on.
Credentialed == {DolceGabbana, Loewe}

C14_NoFetchWithoutCredential ==
    [][\A x \in Execs :
        LET p == parser[x]
            q == parser'[x]
        IN
        p.brand_id \in Credentialed =>
            /\ Len(q.fetched) > Len(p.fetched) => p.bearer_token = "found"
            /\ (p.pc = "token" /\ q.bearer_token # "found")
                   => /\ q.pc = "loop"
                      /\ q.fetched = <<>>
                      /\ Accumulator(q) = Accumulator(p)]_vars

\* C15: an execution whose settings could not be fetched, or do not hold its
\* brand, or whose brand has no strategy, ends having requested nothing, written
\* and uploaded nothing, and notified nobody.
C15_NoStrategyNoWork ==
    \A x \in Execs :
        LET p == parser[x] IN
        (p.got \in {"unavailable", "absent"}
            \/ (p.got = "present" /\ p.brand_id \notin parsers))
        => /\ p.pc = "no_parser"
           /\ p.fetched = <<>>
           /\ p.steps = <<>>
           /\ p.output_filename = None /\ p.artifact = None
           /\ p.upload_url = None /\ p.log_url = None
           /\ p.notifications = <<>>
           /\ p.log_file_name = None

C15_Witness ==
    \E x \in Execs : \E y \in Execs :
        /\ parser[x].pc = "no_parser"
        /\ parser[x].got = "present"
        /\ parser[x].brand_id = UnknownBrand
        /\ parser[y].pc = "no_parser"
        /\ parser[y].got = "unavailable"
        /\ parser[y].brand_id = CanadaGoose

\* C16: an execution whose settings hold no category or no locale requests
\* nothing from its source, accumulates no row, and still publishes: it ends
\* having serialized and uploaded an empty dataset and notified with count -1.
C16_EmptyConfigPublishesEmpty ==
    \A x \in Execs :
        LET p == parser[x] IN
        (Resolved(p.got, p.brand_id) /\ (p.nl = 0 \/ p.nc = 0))
        => /\ p.pc \notin {"token", "first", "page", "raised"}
           /\ p.fetched = <<>>
           /\ Accumulator(p) = <<>>
           /\ p.pc = "done" => /\ p.artifact = <<>>
                               /\ p.steps = PublisherSteps
                               /\ Len(p.notifications) = 1
                               /\ p.notifications[1].count = -1

\* C17: a call of /run_parser, /submit_job or /job_complete that starts a job is
\* answered with the acceptance message in the step that queues its task, before
\* the task has run, and the answer given stays what it was whatever the task
\* does afterwards.
C17_AcceptedBeforeWork ==
    [][/\ \A x \in Execs :
            IF parser[x].pc = "idle"
            THEN parser'[x].pc # "idle"
                    => /\ parser'[x].pc = "queued"
                       /\ parser'[x].reply = "Parser task started in the background"
            ELSE parser'[x].reply = parser[x].reply
       /\ \A i \in 1..Len(manager'.tasks) :
            IF i > Len(manager.tasks)
            THEN /\ manager'.tasks[i].pc = "queued"
                 /\ manager'.tasks[i].reply = "Notification sent in the background"
            ELSE manager'.tasks[i].reply = manager.tasks[i].reply]_vars

C17_Witness ==
    /\ \E x \in Execs :
           /\ parser[x].pc = "no_parser"
           /\ parser[x].brand_id = UnknownBrand
           /\ parser[x].reply = "Parser task started in the background"
    /\ \E i \in 1..Len(manager.tasks) : \E k \in 1..Len(manager.tasks) :
           /\ manager.tasks[i].kind = "procces_brand_single"
           /\ manager.tasks[i].outcome = "post_raises"
           /\ manager.tasks[i].reply = "Notification sent in the background"
           /\ manager.tasks[k].kind = "update_sql_job"
           /\ manager.tasks[k].outcome = "execute_raises"
           /\ manager.tasks[k].reply = "Notification sent in the background"

\* C18: every notification that an execution of the Agent sends to the Manager
\* is accepted by /job_complete, and once its update has run the row of its job
\* holds the result URL, the log URL, the count and the timestamps.
C18_NotificationCompletesJob ==
    /\ \A x \in Execs : \A k \in 1..Len(manager.answers[x]) :
           manager.answers[x][k] = 200
    /\ \A i \in 1..Len(manager.tasks) :
           LET t == manager.tasks[i] IN
           (t.kind = "update_sql_job" /\ t.outcome = "ok"
                /\ t.job_id \in DOMAIN utb_BrandScanJobs)
               => Len(utb_BrandScanJobs[t.job_id].Parsing) = 5

\* C19: once the result URL, the log URL and the count of a job are recorded, no
\* step changes them.
Recorded(row) == SubSeq(row.Parsing, 1, 3)

C19_ResultWriteOnce ==
    [][\A j \in DOMAIN utb_BrandScanJobs :
        utb_BrandScanJobs[j].Parsing # None
            => Recorded(utb_BrandScanJobs'[j]) = Recorded(utb_BrandScanJobs[j])]_vars

\* C20: a notification for a job id without row is answered with the acceptance
\* message; its update raises only when the address lookup or the database
\* does, and whether it raises or runs, no row is created and no row changes.
UnknownJob(t) == t.kind = "update_sql_job" /\ t.job_id \notin DOMAIN NoResults

C20_UnknownJobChangesNothing ==
    /\ DOMAIN utb_BrandScanJobs = DOMAIN NoResults
    /\ \A i \in 1..Len(manager.tasks) :
           LET t == manager.tasks[i] IN
           UnknownJob(t) =>
               /\ t.reply = "Notification sent in the background"
               /\ t.pc = "raised" => t.outcome \in {"ipify_raises", "execute_raises"}
    /\ (\A i \in 1..Len(manager.tasks) : UnknownJob(manager.tasks[i]))
           => utb_BrandScanJobs = NoResults

C20_Witness ==
    /\ Len(manager.tasks) = 2
    /\ \A i \in 1..2 :
           /\ UnknownJob(manager.tasks[i])
           /\ manager.tasks[i].pc = "done"
           /\ manager.tasks[i].outcome = "ok"
    /\ utb_BrandScanJobs = NoResults

\* C21: a dispatch that has ended without a 200 answer (a lookup that failed, a
\* request that raised, another status) has called the alerting collaborator
\* exactly once, and a dispatch answered with 200 has not called it.
C21_DispatchFailureAlertsOnce ==
    \A i \in 1..Len(manager.tasks) :
        LET t == manager.tasks[i] IN
        (t.kind = "procces_brand_single" /\ t.pc # "queued") =>
            t.alerts = IF t.outcome = "status_200" THEN 0 ELSE 1

\* C22: two executions, whether of different jobs or of the same job id, never
\* have the same run code, log name or dataset name, and the files of an
\* execution stay in place until its own cleanup, whatever the other one does.
Built(p) == p.code # 0

C22_FreshRunCodes ==
    /\ \A x \in Execs : \A y \in Execs \ {x} :
           (Built(parser[x]) /\ Built(parser[y])) =>
               /\ parser[x].code # parser[y].code
               /\ parser[x].log_file_name # parser[y].log_file_name
               /\ parser[x].output_filename # None
                      => parser[x].output_filename # parser[y].output_filename
    /\ \A x \in Execs :
           LET p == parser[x] IN
           /\ (Built(p) /\ p.pc \notin {"notify", "done"}) => p.log_file_name \in files
           /\ p.pc \in {"upload_data", "upload_log", "cleanup"}
                  => p.output_filename \in files

C22_Witness ==
    /\ \A x \in Execs : parser[x].pc = "cleanup" /\ parser[x].job_id = "J1"
    /\ parser[1].code # parser[2].code
    /\ Cardinality(files) = 4

\* C23: an execution whose Publisher has finished has sent its notification
\* whether or not a deletion raised, and unless a deletion raised neither its
\* dataset file nor its log file is left in the working directory.
C23_NoLocalCopyRemains ==
    \A x \in Execs :
        LET p == parser[x] IN
        p.pc = "done" =>
            /\ Len(p.notifications) = 1
            /\ p.removal = "removed" =>
                   /\ p.output_filename \notin files
                   /\ p.log_file_name \notin files

\* C24: a failed upload of the dataset or of the log, or a failed notification
\* request, does not end the execution: every step of the Publisher is taken
\* once, in order, the cleanup included, and the execution finishes.
InPublisher(p) == p.steps # <<>>

C24_PublishFailureContained ==
    \A x \in Execs :
        LET p == parser[x] IN
        InPublisher(p) =>
            /\ p.pc \in {"upload_data", "upload_log", "cleanup", "notify", "done"}
            /\ IsPrefix(p.steps, PublisherSteps)
            /\ Len(p.notifications) <= 1
            /\ p.pc = "done" => /\ p.removal # "none"
                                /\ Len(p.notifications) = 1

C24_Witness ==
    \E x \in Execs :
        LET p == parser[x] IN
        /\ p.pc = "done"
        /\ p.upload_url = None
        /\ p.log_url = None
        /\ ~p.notifications[1].delivered
        /\ p.removal = "removed"
        /\ p.steps = PublisherSteps

\* C25: a cleanup run when the dataset file and the log file of the execution
\* are already gone raises nothing and leaves the working directory as it is.
Gone(p) == p.output_filename \notin files /\ p.log_file_name \notin files

C25_CleanupIdempotent ==
    [][\A x \in Execs :
        (Gone(parser[x]) /\ parser'[x].steps # parser[x].steps)
            => /\ files' = files
               /\ parser'[x].removal = "removed"]_vars

C25_Witness ==
    \E x \in Execs : \E y \in Execs :
        /\ parser[x].steps = <<"delete", "delete">>
        /\ parser[x].removal = "removed"
        /\ Gone(parser[x])
        /\ parser[y].steps = <<"delete">>
        /\ parser[y].removal = "log_raises"
        /\ files = {parser[y].log_file_name}

\* C26: the serialized dataset has as many rows as the category fetches of the
\* execution returned in all: every returned row is in it, repeated rows
\* included.
C26_DatasetLengthIsSumOfFetches ==
    \A x \in Execs :
        parser[x].output_filename # None
            => Len(parser[x].artifact) = parser[x].returned

\* C27: in the strategies that know their page count or total, a page request
\* answered with zero items is followed by the next page index or offset, or by
\* the return of the rows of the other pages when it was the last page.
EmptyPage(p, q) ==
    /\ p.pc = "page"
    /\ Len(q.fetched) = Len(p.fetched) + 1
    /\ q.fetched[Len(q.fetched)].n = 0

C27_EmptyPageAdvances ==
    [][\A x \in Execs :
        LET p == parser[x]
            q == parser'[x]
        IN
        (p.brand_id \in KnownPageBrands \cup KnownTotalBrands /\ EmptyPage(p, q)) =>
            \/ q.pc = "page" /\ q.offset > p.offset /\ q.all_products = p.all_products
            \/ q.pc = "loop" /\ q.outcome = "returned"
                  /\ q.data = p.data \o p.all_products]_vars

\* C28: an execution walks its (locale, category) pairs in the order of the
\* settings, locales outside and categories inside, never going back and never
\* leaving a locale before its last category; a request to the source is made
\* only for the pair the walk is at, and never once the Publisher has started.
Issued(p, q) == Len(q.fetched) > Len(p.fetched)

C28_FetchOrder ==
    [][\A x \in Execs :
        LET p == parser[x]
            q == parser'[x]
        IN
        /\ \/ q.li = p.li /\ q.ci = p.ci
           \/ q.li = p.li /\ q.ci = p.ci + 1 /\ p.li >= 1 /\ p.ci < p.nc
           \/ q.li = p.li + 1 /\ q.ci = 0 /\ p.li < p.nl
                 /\ (p.li >= 1 => p.ci = p.nc)
        /\ Issued(p, q) =>
               /\ p.steps = <<>>
               /\ p.pc \in {"first", "page"}
               /\ q.li = p.li /\ q.ci = p.ci
               /\ p.li \in 1..p.nl /\ p.ci \in 0..p.nc
        /\ p.steps # <<>> => q.fetched = p.fetched /\ q.turn = p.turn]_vars

C28_Witness ==
    \E x \in Execs :
        LET p == parser[x] IN
        /\ p.pc = "done"
        /\ p.nl = 2 /\ p.nc = 2
        /\ p.li = 2 /\ p.ci = 2
        /\ p.returned = 4

\* C29: in the strategies whose fetch_data catches every exception, the rows of
\* a category reach the dataset only when the fetch returns, all of them
\* together; a fetch that fails on any page adds none, the rows of its earlier
\* pages included.
CatchAllBrands == KnownPageBrands \cup KnownTotalBrands

C29_AllRowsOrNone ==
    [][\A x \in Execs :
        LET p == parser[x]
            q == parser'[x]
        IN
        (p.brand_id \in CatchAllBrands /\ p.pc \in {"token", "first", "page"}) =>
            /\ q.pc \in {"first", "page"} => q.data = p.data
            /\ (q.pc = "loop" /\ q.outcome # "returned") => q.data = p.data
            /\ (q.pc = "loop" /\ q.outcome = "returned") =>
                   /\ IsPrefix(p.data \o p.all_products, q.data)
                   /\ (p.brand_id # SaintLaurent /\ Len(q.fetched) < MaxFetched) =>
                          Len(q.data) - Len(p.data)
                              = Retrieved(q.fetched, Len(q.fetched)) - q.fetched[1].n]_vars

C29_Witness ==
    \E x \in Execs :
        LET p == parser[x]
            f == p.fetched
        IN
        /\ p.brand_id \in CatchAllBrands
        /\ p.pc = "loop"
        /\ p.outcome = "except"
        /\ Len(f) = 3
        /\ f[2].n > 0
        /\ f[3].n = -1
        /\ RowsOf(p.data, p.li, p.ci) = <<>>
        /\ p.ci = 2 /\ RowsOf(p.data, p.li, 1) # <<>>

\* C30: format_url puts https: before a value that starts with //, returns a
\* value that starts with http as it is, returns the empty string for the empty
\* string and for None, and applied to its own result returns that result.
C30_FormatUrl ==
    LET u == url.arg
        r == url.results
    IN
    /\ Len(r) >= 1 =>
           /\ startswith(u, <<"/", "/">>) => r[1] = <<"h", "t", "t", "p", "s", ":">> \o u
           /\ (u # NoUrl /\ startswith(u, <<"h", "t", "t", "p">>)) => r[1] = u
           /\ u \in {<<>>, NoUrl} => r[1] = <<>>
    /\ Len(r) >= 2 => r[2] = r[1]

C30_Witness ==
    /\ url.arg = <<"/", "/", "x">>
    /\ url.results = << <<"h", "t", "t", "p", "s", ":", "/", "/", "x">>,
                        <<"h", "t", "t", "p", "s", ":", "/", "/", "x">> >>

====
